---- MODULE Spec2Model ----
(***************************************************************************)
(* Movie Year Renamer (update_year.py): the rename batch, its log and the  *)
(* undo of the log, over a small POSIX file tree.  Strings are sequences   *)
(* of one-character strings, so that the path, title and log-line          *)
(* conversions are computed as the code computes them.                     *)
(***************************************************************************)
EXTENDS Integers, Sequences, FiniteSets, TLC

(***************************************************************************)
(* Strings                                                                 *)
(***************************************************************************)
Digits == {"0", "1", "2", "3", "4", "5", "6", "7", "8", "9"}

Whitespace == {" ", "\t", "\n", "\r", "\f"}

UpperToLower ==
    [c \in {"A","B","C","D","E","F","G","H","I","J","K","L","M",
            "N","O","P","Q","R","S","T","U","V","W","X","Y","Z"} |->
        CASE c = "A" -> "a" [] c = "B" -> "b" [] c = "C" -> "c" [] c = "D" -> "d"
          [] c = "E" -> "e" [] c = "F" -> "f" [] c = "G" -> "g" [] c = "H" -> "h"
          [] c = "I" -> "i" [] c = "J" -> "j" [] c = "K" -> "k" [] c = "L" -> "l"
          [] c = "M" -> "m" [] c = "N" -> "n" [] c = "O" -> "o" [] c = "P" -> "p"
          [] c = "Q" -> "q" [] c = "R" -> "r" [] c = "S" -> "s" [] c = "T" -> "t"
          [] c = "U" -> "u" [] c = "V" -> "v" [] c = "W" -> "w" [] c = "X" -> "x"
          [] c = "Y" -> "y" [] c = "Z" -> "z"]

\* str.lower() on one character
LowerChar(c) == IF c \in DOMAIN UpperToLower THEN UpperToLower[c] ELSE c

\* str.lower()
Lower(s) == [i \in 1..Len(s) |-> LowerChar(s[i])]

\* s[i:] with a 1-based first index
From(s, i) == IF i > Len(s) THEN <<>> ELSE SubSeq(s, i, Len(s))

\* s[:n]
Take(s, n) == IF n >= Len(s) THEN s ELSE SubSeq(s, 1, n)

\* s.startswith(p)
StartsWith(s, p) == Len(p) <= Len(s) /\ SubSeq(s, 1, Len(p)) = p

\* s.find(p) as a 1-based index, 0 when p does not occur
Find(s, p) ==
    LET hits == {i \in 1..(Len(s) - Len(p) + 1) : SubSeq(s, i, i + Len(p) - 1) = p}
    IN  IF hits = {} THEN 0 ELSE CHOOSE i \in hits : \A j \in hits : i <= j

\* s.rfind(c) for one character, 0 when c does not occur
RFind(s, c) ==
    LET hits == {i \in 1..Len(s) : s[i] = c}
    IN  IF hits = {} THEN 0 ELSE CHOOSE i \in hits : \A j \in hits : i >= j

\* str.strip(): leading and trailing whitespace removed
Strip(s) ==
    LET keep == {i \in 1..Len(s) : s[i] \notin Whitespace}
    IN  IF keep = {} THEN <<>>
        ELSE SubSeq(s, CHOOSE i \in keep : \A j \in keep : i <= j,
                       CHOOSE i \in keep : \A j \in keep : i >= j)

\* str.rstrip("/")
RStripSlash(s) ==
    LET keep == {i \in 1..Len(s) : s[i] # "/"}
    IN  IF keep = {} THEN <<>>
        ELSE SubSeq(s, 1, CHOOSE i \in keep : \A j \in keep : i >= j)

(***************************************************************************)
(* os.path                                                                 *)
(***************************************************************************)
\* os.path.splitext: the extension starts at the last dot of the last
\* component, unless only dots precede it in that component
splitext(p) ==
    LET sepIndex == RFind(p, "/")
        dotIndex == RFind(p, ".")
    IN  IF dotIndex > sepIndex
           /\ \E k \in (sepIndex + 1)..(dotIndex - 1) : p[k] # "."
        THEN <<SubSeq(p, 1, dotIndex - 1), From(p, dotIndex)>>
        ELSE <<p, <<>>>>

\* os.path.join(a, b)
join(a, b) ==
    IF StartsWith(b, <<"/">>) THEN b
    ELSE IF a = <<>> \/ a[Len(a)] = "/" THEN a \o b
    ELSE a \o <<"/">> \o b

\* os.path.dirname(p)
dirname(p) ==
    LET head == Take(p, RFind(p, "/"))
    IN  IF head # <<>> /\ \E k \in 1..Len(head) : head[k] # "/"
        THEN RStripSlash(head) ELSE head

\* os.path.basename(p)
basename(p) == From(p, RFind(p, "/") + 1)

(***************************************************************************)
(* re.sub with a character class: every maximal run of characters of cls,  *)
(* at least least long, becomes one space                                  *)
(***************************************************************************)
RunLen(s, cls) ==
    LET stops == {i \in 1..Len(s) : s[i] \notin cls}
    IN  IF stops = {} THEN Len(s)
        ELSE (CHOOSE i \in stops : \A j \in stops : i <= j) - 1

RECURSIVE SubRuns(_, _, _)
SubRuns(s, cls, least) ==
    IF s = <<>> THEN <<>>
    ELSE IF s[1] \in cls
    THEN LET n == RunLen(s, cls)
         IN  (IF n >= least THEN <<" ">> ELSE Take(s, n))
                \o SubRuns(From(s, n + 1), cls, least)
    ELSE <<s[1]>> \o SubRuns(Tail(s), cls, least)

(***************************************************************************)
(* User configuration (update_year.py, lines 36-46)                        *)
(***************************************************************************)
ROOT_FOLDER == <<"/", "M", "o", "v", "i", "e", "s">>

VIDEO_EXTENSIONS ==
    { <<".", "m", "p", "4">>, <<".", "m", "k", "v">>, <<".", "a", "v", "i">>,
      <<".", "m", "o", "v">>, <<".", "w", "m", "v">>, <<".", "m", "4", "v">>,
      <<".", "w", "e", "b", "m">> }

PLACEHOLDER_KEY == "PASTE_YOUR_TMDB_API_KEY_HERE"

\* the alternatives of JUNK_PATTERN in their order, lower-cased (re.IGNORECASE)
JUNK_TOKENS ==
    << <<"1","0","8","0","p">>, <<"7","2","0","p">>, <<"4","8","0","p">>,
       <<"b","l","u","r","a","y">>, <<"b","r","r","i","p">>,
       <<"d","v","d","r","i","p">>, <<"h","d","r">>,
       <<"w","e","b","r","i","p">>, <<"x","2","6","4">>, <<"x","2","6","5">>,
       <<"h","e","v","c">>, <<"a","a","c">>, <<"d","t","s">>,
       <<"h",".","2","6","4">>, <<"h",".","2","6","5">> >>

\* the length of the first alternative of JUNK_PATTERN matching at the start
\* of s, 0 when none does
JunkMatch(s) ==
    LET hits == {k \in 1..Len(JUNK_TOKENS) :
                    StartsWith(Lower(Take(s, Len(JUNK_TOKENS[k]))), JUNK_TOKENS[k])}
    IN  IF hits = {} THEN 0
        ELSE Len(JUNK_TOKENS[CHOOSE k \in hits : \A j \in hits : k <= j])

\* JUNK_PATTERN.sub("", s)
RECURSIVE JunkSub(_)
JunkSub(s) ==
    IF s = <<>> THEN <<>>
    ELSE LET n == JunkMatch(s)
         IN  IF n > 0 THEN JunkSub(From(s, n + 1))
             ELSE <<s[1]>> \o JunkSub(Tail(s))

\* (no name taken for a tagged one)
has_year_never(filename) == FALSE

\* YEAR_PATTERN.search: "(" four digits ")"
has_year(filename) ==
    \E i \in 1..(Len(filename) - 5) :
        /\ filename[i] = "("
        /\ \A k \in 1..4 : filename[i + k] \in Digits
        /\ filename[i + 5] = ")"

clean_title(filename, remove_junk) ==
    LET name == Strip(splitext(filename)[1])
    IN  IF remove_junk
        THEN SubRuns(SubRuns(Strip(JunkSub(name)), {".", "_"}, 1), Whitespace, 2)
        ELSE name

(***************************************************************************)
(* The file tree and the metadata service the program runs against         *)
(***************************************************************************)
\* the most video files a starting tree holds
MaxFiles == 2

\* the most calls of rename_movies and undo_last_batch in one behaviour
MaxOps == 3

\* the most refusals and interferences of the environment in one behaviour
MaxFaults == 1

\* the most pieces a file name given to clean_title is made of
MaxPieces == 3

SubFolder == <<"/", "M", "o", "v", "i", "e", "s", "/", "S">>

CollectionName == <<"C">>

ReleaseDate == <<"2", "0", "0", "0", "-", "0", "1", "-", "1", "5">>

\* the video files a starting tree is drawn from: <<folder, name, content>>
Videos ==
    { <<ROOT_FOLDER, <<"a", ".", "m", "k", "v">>, 1>>,
      <<SubFolder,   <<"a", ".", "m", "k", "v">>, 2>>,
      <<ROOT_FOLDER, <<"a", "H", "D", "R", ".", "M", "K", "V">>, 3>> }

\* a file the scan passes over: no video extension
Notes == <<SubFolder, <<"n", ".", "t", "x", "t">>, 4>>

Tree(chosen) ==
    LET all == chosen \cup {Notes}
    IN  [p \in {join(v[1], v[2]) : v \in all} |->
            (CHOOSE v \in all : join(v[1], v[2]) = p)[3]]

\* the answers of the service: the search results of a title, in the
\* service's order, and the details of a movie id
Undated == [id |-> 7, release_date |-> <<>>]

Dated == [id |-> 8, release_date |-> ReleaseDate]

NoCollection == [null |-> TRUE, name |-> <<>>]

Collection(n) == [null |-> FALSE, name |-> n]

Catalogue(date, c) ==
    [search |-> [t \in {<<"a">>, <<"a", "H", "D", "R">>} |->
                    IF t = <<"a">> THEN <<Undated, Dated>> ELSE <<Undated>>],
     details |-> [i \in {8} |->
                    [release_date |-> date, belongs_to_collection |-> c]]]

Catalogues ==
    {Catalogue(ReleaseDate, c) : c \in {NoCollection, Collection(CollectionName)}}

\* the answers the service may give at a later time: the movie may have
\* joined or left the collection, and its date may have been corrected
LaterDate == <<"2", "0", "0", "1", "-", "0", "6", "-", "3", "0">>

LaterCatalogues ==
    {Catalogue(d, c) : d \in {ReleaseDate, LaterDate},
                       c \in {NoCollection, Collection(CollectionName)}}

None == [ok |-> FALSE, release_date |-> <<>>, belongs_to_collection |-> NoCollection]

Found(d) == [ok |-> TRUE, release_date |-> d.release_date,
             belongs_to_collection |-> d.belongs_to_collection]

NoLocal == <<>>

VARIABLES
    pc,               \* where the process is: the menu, or inside a handler
    TMDB_API_KEY,     \* the global credential
    files,            \* regular files of the tree: path -> content
    dirs,             \* directories of the tree
    logfile,          \* rename_log.txt: whether it exists, and its text
    tmdb,             \* the catalogue the service answers from
    clean_junk, dry_run, sort_collections,   \* the options of the running batch
    stack,            \* os.walk: folders still to visit, one set per level
    root,             \* os.walk: the folder being listed
    nondirs,          \* os.walk: names of root not yet handed to the loop body
    file, title, movie_data,                 \* locals of the loop body
    lines, idx,       \* undo_last_batch: the lines read, and how many remain
    msg,              \* what the latest step printed
    applied,          \* renames applied by the latest rename_movies run, in order
    logStart,         \* records in the log when the latest run opened it
    lastOp,           \* how the latest handler ended, "batch" while a batch runs
    outcome,          \* the action taken for each candidate of the latest run
    previous,         \* the outcome of the run before, when the latest run
                      \* follows it directly with the same options
    delay,            \* the pause between requests: "none" before the first
                      \* resolution of a batch, "due" after a resolution,
                      \* "taken" once time.sleep(API_DELAY) has run
    would,            \* the renames the latest dry run said it would make, kept
                      \* through a run that follows it directly with the same
                      \* other options
    ops,              \* calls of the two handlers so far
    faults            \* refusals and interferences of the environment so far

vars == <<pc, TMDB_API_KEY, files, dirs, logfile, tmdb, clean_junk, dry_run,
          sort_collections, stack, root, nondirs, file, title, movie_data,
          lines, idx, msg, applied, logStart, lastOp, outcome, previous,
          delay, would, ops, faults>>

fsVars == <<files, dirs, logfile>>

optVars == <<clean_junk, dry_run, sort_collections>>

walkVars == <<stack, root, nondirs>>

bodyVars == <<file, title, movie_data>>

undoVars == <<lines, idx>>

histVars == <<applied, logStart, lastOp, outcome, previous>>

envVars == <<ops, faults>>

paceVars == <<delay, would>>

NoReport == [valid |-> FALSE, pairs |-> {}]

Say(kind, a, b) == [kind |-> kind, a |-> a, b |-> b]

\* the options and outcomes of the latest batch are kept until the program
\* does something else or the tree is changed from outside
Forget ==
    /\ clean_junk' = FALSE /\ dry_run' = FALSE /\ sort_collections' = FALSE
    /\ outcome' = <<>>
    /\ previous' = [valid |-> FALSE, out |-> <<>>]
    /\ would' = NoReport

\* a step that prints nothing
Quiet == Say("", <<>>, <<>>)

(***************************************************************************)
(* The file system calls the program makes                                 *)
(***************************************************************************)
\* (only folders taken to exist)
exists_folder(p) == p \in dirs

\* os.path.exists
exists(p) == p \in DOMAIN files \/ p \in dirs

\* os.scandir(d): the names of the regular files of d
FilesIn(d) == {basename(p) : p \in {q \in DOMAIN files : dirname(q) = d}}

\* os.scandir(d): the folders of d
DirsIn(d) == {q \in dirs : q # d /\ dirname(q) = d}

\* the folders os.makedirs(p, exist_ok=True) makes sure of: p and the
\* folders above it
Chain(p) ==
    {Take(p, i - 1) : i \in {k \in 2..Len(p) : p[k] = "/"}} \cup {p}

\* os.makedirs raises when a regular file is in the way
makedirsRaises(p) == \E q \in Chain(p) : q \in DOMAIN files

\* os.rename(old, new) on POSIX: new is replaced when it is a regular file
Renamed(fs, old, new) ==
    [p \in (DOMAIN fs \ {old}) \cup {new} |-> IF p = new THEN fs[old] ELSE fs[p]]

\* os.rename raises when new is a folder or its folder is missing, ds
\* being the folders at the time of the call
renameRaises(old, new, ds) ==
    old \notin DOMAIN files \/ new \in ds \/ dirname(new) \notin ds

\* str.splitlines()
LineEnds == {"\n", "\r", "\f"}

RECURSIVE splitlines(_)
splitlines(text) ==
    IF text = <<>> THEN <<>>
    ELSE LET n == RunLen(text, {c \in {text[i] : i \in 1..Len(text)} : c \notin LineEnds})
         IN  IF n = Len(text) THEN <<text>>
             ELSE LET crlf == text[n + 1] = "\r" /\ n + 2 <= Len(text)
                                /\ text[n + 2] = "\n"
                  IN  <<Take(text, n)>>
                        \o splitlines(From(text, n + (IF crlf THEN 3 ELSE 2)))

Arrow == <<" ", "-", ">", " ">>

\* (the record with the two names in place of the two paths)
Record_names(old_path, new_path) ==
    basename(old_path) \o Arrow \o basename(new_path) \o <<"\n">>

\* (the record without its line end)
Record_unterminated(old_path, new_path) == old_path \o Arrow \o new_path

\* f"{old_path} -> {new_path}\n"
Record(old_path, new_path) == old_path \o Arrow \o new_path \o <<"\n">>

\* line.split(" -> ", 1), for a line that holds the separator
SplitArrow(line) ==
    LET i == Find(line, Arrow)
    IN  <<Take(line, i - 1), From(line, i + Len(Arrow))>>

(***************************************************************************)
(* get_movie_data                                                          *)
(***************************************************************************)
\* next((m for m in results if m.get("release_date")), None), then the
\* details of that movie
get_movie_data(t) ==
    LET results == IF t \in DOMAIN tmdb.search THEN tmdb.search[t] ELSE <<>>
        dated   == {i \in 1..Len(results) : results[i].release_date # <<>>}
    IN  IF dated = {} THEN None
        ELSE Found(tmdb.details[results[CHOOSE i \in dated :
                                            \A j \in dated : i <= j].id])

(***************************************************************************)
(* rename_movies: what the loop body computes for the file in hand         *)
(***************************************************************************)
ext == Lower(splitext(file)[2])

year == Take(movie_data.release_date, 4)

sorted == sort_collections /\ ~movie_data.belongs_to_collection.null

\* (the collection folder made under the folder being listed)
target_folder_local ==
    IF sorted THEN join(root, movie_data.belongs_to_collection.name)
    ELSE root

target_folder ==
    IF sorted THEN join(ROOT_FOLDER, movie_data.belongs_to_collection.name)
    ELSE root

new_name == title \o <<" ", "(">> \o year \o <<")">> \o ext

old_path == join(root, file)

new_path == join(target_folder, new_name)

\* (a candidate without a year taken for a resolved one)
resolved_always == TRUE

\* line 171
resolved == movie_data.ok /\ movie_data.release_date # <<>>

\* (no check of the destination)
collides_never == FALSE

\* (the destination checked against this run's renames, not the tree)
collides_seen == \E i \in 1..Len(applied) : applied[i].new = new_path

\* line 188: a file or folder is already at the destination
collides == exists(new_path)

(***************************************************************************)
(* The state after the program is started                                  *)
(***************************************************************************)
NoData == None

Init ==
    /\ pc = "menu"
    /\ TMDB_API_KEY = PLACEHOLDER_KEY
    /\ \E chosen \in SUBSET Videos :
          /\ Cardinality(chosen) <= MaxFiles
          /\ files = Tree(chosen)
    /\ dirs = {ROOT_FOLDER, SubFolder}
    /\ logfile = [exists |-> FALSE, text |-> <<>>]
    /\ tmdb \in Catalogues
    /\ clean_junk = FALSE /\ dry_run = FALSE /\ sort_collections = FALSE
    /\ stack = <<>> /\ root = <<>> /\ nondirs = {}
    /\ file = <<>> /\ title = <<>> /\ movie_data = NoData
    /\ lines = <<>> /\ idx = 0
    /\ msg = Quiet
    /\ applied = <<>>
    /\ logStart = 0
    /\ lastOp = "none"
    /\ outcome = <<>>
    /\ previous = [valid |-> FALSE, out |-> <<>>]
    /\ delay = "none"
    /\ would = NoReport
    /\ ops = 0
    /\ faults = 0

(***************************************************************************)
(* main_menu                                                               *)
(***************************************************************************)
main_menu ==
    /\ pc = "menu"
    /\ \E choice \in {"1", "2", "3", "x"} :
          /\ choice \in {"1", "2"} => ops < MaxOps
          /\ ops' = IF choice \in {"1", "2"} THEN ops + 1 ELSE ops
          /\ pc' = CASE choice = "1" -> "rename_movies"
                     [] choice = "2" -> "undo_last_batch"
                     [] choice = "3" -> "exited"
                     [] OTHER -> "menu"
          /\ msg' = IF choice = "3" THEN Say("Exiting.", <<>>, <<>>)
                    ELSE IF choice = "x" THEN Say("Invalid choice.", <<>>, <<>>)
                    ELSE Quiet
    /\ UNCHANGED paceVars
    /\ UNCHANGED <<TMDB_API_KEY, fsVars, tmdb, optVars, walkVars, bodyVars,
                   undoVars, histVars, faults>>

\* the program is started again after it ended: the tree and the log file
\* are as it left them, the globals are those of the source
launch ==
    /\ pc \in {"exited", "crashed"}
    /\ pc' = "menu"
    /\ TMDB_API_KEY' = PLACEHOLDER_KEY
    /\ msg' = Quiet
    /\ Forget
    /\ lastOp' = "launch"
    /\ UNCHANGED <<fsVars, tmdb, walkVars, bodyVars, undoVars, applied, logStart>>
    /\ UNCHANGED delay
    /\ UNCHANGED envVars

(***************************************************************************)
(* rename_movies                                                           *)
(***************************************************************************)
\* lines 145-149: no credential is configured and the user gives none
rename_no_key ==
    /\ pc = "rename_movies"
    /\ TMDB_API_KEY \in {"", PLACEHOLDER_KEY}
    /\ TMDB_API_KEY' = ""
    /\ msg' = Say("No API key provided. Exiting.", <<>>, <<>>)
    /\ pc' = "menu"
    /\ lastOp' = "nokey"
    /\ UNCHANGED <<fsVars, tmdb, optVars, walkVars, bodyVars, undoVars,
                   applied, logStart, outcome, previous>>
    /\ UNCHANGED paceVars
    /\ UNCHANGED envVars

\* lines 145-158: the credential, the three prompts, open(LOG_FILE, "a")
\* and the call of os.walk
rename_start ==
    /\ pc = "rename_movies"
    /\ TMDB_API_KEY' = "key"
    /\ clean_junk' \in BOOLEAN
    /\ dry_run' \in BOOLEAN
    /\ sort_collections' \in BOOLEAN
    /\ logfile' = [exists |-> TRUE, text |-> logfile.text]
    /\ logStart' = Len(splitlines(logfile.text))
    /\ applied' = <<>>
    /\ outcome' = <<>>
    /\ previous' = IF lastOp = "rename" /\ optVars' = optVars
                   THEN [valid |-> TRUE, out |-> outcome]
                   ELSE [valid |-> FALSE, out |-> <<>>]
    /\ stack' = << {ROOT_FOLDER} >>
    /\ root' = <<>>
    /\ nondirs' = {}
    /\ msg' = Say("Starting scan...", <<>>, <<>>)
    /\ pc' = "walk"
    /\ lastOp' = "batch"
    /\ UNCHANGED <<files, dirs, tmdb, bodyVars, undoVars>>
    /\ delay' = "none"
    /\ would' = IF dry_run' THEN [valid |-> TRUE, pairs |-> {}]
                ELSE IF lastOp = "dry" /\ would.valid /\ clean_junk' = clean_junk
                        /\ sort_collections' = sort_collections
                THEN would
                ELSE NoReport
    /\ UNCHANGED envVars

\* os.walk lists the next folder: its files go to the loop, its folders are
\* visited after them, before the remaining folders of the level above
walk_dir ==
    /\ pc = "walk"
    /\ nondirs = {}
    /\ stack # <<>>
    /\ \E d \in Head(stack) :
          LET rest == IF Head(stack) = {d} THEN Tail(stack)
                      ELSE <<Head(stack) \ {d}>> \o Tail(stack)
          IN  /\ root' = d
              /\ nondirs' = FilesIn(d)
              /\ stack' = IF DirsIn(d) = {} THEN rest ELSE <<DirsIn(d)>> \o rest
    /\ msg' = Quiet
    /\ UNCHANGED <<pc, TMDB_API_KEY, fsVars, tmdb, optVars, bodyVars, undoVars,
                   histVars>>
    /\ UNCHANGED paceVars
    /\ UNCHANGED envVars

\* lines 159-168: the next file of the folder, the two filters and the title
walk_file ==
    /\ pc = "walk"
    /\ \E f \in nondirs :
          /\ nondirs' = nondirs \ {f}
          /\ LET e == Lower(splitext(f)[2])
             IN  IF e \notin VIDEO_EXTENSIONS \/ has_year(f)
                 THEN /\ pc' = "walk"
                      /\ UNCHANGED <<file, title>>
                 ELSE /\ pc' = "get_movie_data"
                      /\ file' = f
                      /\ title' = clean_title(f, clean_junk)
    /\ msg' = Quiet
    /\ UNCHANGED <<TMDB_API_KEY, fsVars, tmdb, optVars, stack, root, movie_data,
                   undoVars, histVars>>
    /\ UNCHANGED paceVars
    /\ UNCHANGED envVars

\* line 169
resolve ==
    /\ pc = "get_movie_data"
    /\ movie_data' = get_movie_data(title)
    /\ pc' = "plan"
    /\ msg' = Quiet
    /\ UNCHANGED <<TMDB_API_KEY, fsVars, tmdb, optVars, walkVars, file, title,
                   undoVars, histVars>>
    /\ delay' = "due"
    /\ UNCHANGED would
    /\ UNCHANGED envVars

\* the calls of the try block that can raise: the two requests with their
\* status checks, and the decoding of the two answers
Lookups == {"search", "search json", "details", "details json"}

\* lines 86-88: a call of the try block raises, the exception is printed and
\* mapped to None; the details are only asked for a dated search result
resolve_fails ==
    /\ pc = "get_movie_data"
    /\ \E step \in Lookups :
          /\ step \in {"details", "details json"} => get_movie_data(title) # None
          /\ msg' = Say("TMDb error", title, step)
    /\ movie_data' = None
    /\ pc' = "plan"
    /\ UNCHANGED <<TMDB_API_KEY, fsVars, tmdb, optVars, walkVars, file, title,
                   undoVars, histVars>>
    /\ delay' = "due"
    /\ UNCHANGED would
    /\ faults < MaxFaults
    /\ faults' = faults + 1
    /\ UNCHANGED ops

\* line 199: time.sleep(API_DELAY)
sleep == "taken"

\* the action taken for the candidate in hand, kept with those before it
Noted(action) ==
    [p \in DOMAIN outcome \cup {old_path} |->
        IF p = old_path THEN action ELSE outcome[p]]

\* what an exception leaves behind: nothing in rename_movies or main_menu
\* catches it, the with statement closes the log and the process ends
Raised ==
    /\ msg' = Say("Traceback", old_path, <<>>)
    /\ pc' = "crashed"
    /\ lastOp' = "crash"
    /\ stack' = <<>> /\ root' = <<>> /\ nondirs' = {}
    /\ delay' = "none"
    /\ UNCHANGED would
    /\ UNCHANGED <<files, logfile, applied, outcome>>

\* lines 171-199, when the operating system refuses no call
plan ==
    /\ pc = "plan"
    /\ IF ~resolved
       THEN /\ msg' = Say("Year not found", title, <<>>)
            /\ outcome' = Noted("SKIP_NO_YEAR")
            /\ pc' = "walk"
            /\ UNCHANGED <<fsVars, applied, walkVars, lastOp, paceVars>>
       ELSE IF sorted /\ makedirsRaises(target_folder)
       THEN Raised /\ UNCHANGED dirs
       ELSE /\ dirs' = IF sorted THEN dirs \cup Chain(target_folder) ELSE dirs
            /\ IF collides
               THEN /\ msg' = Say("Skipped (already exists)", new_name, <<>>)
                    /\ outcome' = Noted("SKIP_EXISTS")
                    /\ pc' = "walk"
                    /\ UNCHANGED <<files, logfile, applied, walkVars, lastOp,
                                   paceVars>>
               ELSE IF dry_run
               THEN /\ msg' = Say("[DRY-RUN] Would rename", file, new_name)
                    /\ outcome' = Noted("WOULD_RENAME")
                    /\ would' = [would EXCEPT
                                   !.pairs = @ \cup {<<old_path, new_path>>}]
                    /\ delay' = sleep
                    /\ pc' = "walk"
                    /\ UNCHANGED <<files, logfile, applied, walkVars, lastOp>>
               ELSE IF renameRaises(old_path, new_path, dirs')
               THEN Raised
               ELSE /\ files' = Renamed(files, old_path, new_path)
                    /\ logfile' = [logfile EXCEPT
                                     !.text = @ \o Record(old_path, new_path)]
                    /\ applied' = Append(applied,
                                    [old |-> old_path, new |-> new_path,
                                     content |-> files[old_path]])
                    /\ msg' = Say("Renamed", file, new_name)
                    /\ outcome' = Noted("RENAME")
                    /\ delay' = sleep
                    /\ pc' = "walk"
                    /\ UNCHANGED <<walkVars, lastOp, would>>
    /\ file' = NoLocal /\ title' = NoLocal /\ movie_data' = NoData
    /\ UNCHANGED <<TMDB_API_KEY, tmdb, optVars, undoVars, logStart, previous>>
    /\ UNCHANGED envVars

\* line 195: the operating system refuses the move (permissions, a file in
\* use, a read-only volume) and os.rename raises
plan_raises ==
    /\ pc = "plan"
    /\ resolved
    /\ ~(sorted /\ makedirsRaises(target_folder))
    /\ ~collides
    /\ ~dry_run
    /\ dirs' = IF sorted THEN dirs \cup Chain(target_folder) ELSE dirs
    /\ Raised
    /\ file' = NoLocal /\ title' = NoLocal /\ movie_data' = NoData
    /\ UNCHANGED <<TMDB_API_KEY, tmdb, optVars, undoVars, logStart, previous>>
    /\ faults < MaxFaults
    /\ faults' = faults + 1
    /\ UNCHANGED ops

\* the walk is over: the with statement closes the log, the function returns
rename_done ==
    /\ pc = "walk"
    /\ nondirs = {}
    /\ stack = <<>>
    /\ pc' = "menu"
    /\ root' = <<>>
    /\ lastOp' = IF dry_run THEN "dry" ELSE "rename"
    /\ msg' = Quiet
    /\ UNCHANGED <<TMDB_API_KEY, fsVars, tmdb, optVars, stack, nondirs, bodyVars,
                   undoVars, applied, logStart, outcome, previous>>
    /\ delay' = "none"
    /\ UNCHANGED would
    /\ UNCHANGED envVars

(***************************************************************************)
(* undo_last_batch                                                         *)
(***************************************************************************)
\* (no check for an empty log)
no_lines_unchecked == FALSE

\* line 118
no_lines == splitlines(logfile.text) = <<>>

\* lines 111-120: the log is read; nothing to undo without a line
undo_start ==
    /\ pc = "undo_last_batch"
    /\ IF ~logfile.exists
       THEN /\ msg' = Say("No log file found. Nothing to undo.", <<>>, <<>>)
            /\ pc' = "menu"
            /\ lastOp' = "undo"
            /\ UNCHANGED undoVars
       ELSE IF no_lines
       THEN /\ msg' = Say("Log file is empty. Nothing to undo.", <<>>, <<>>)
            /\ pc' = "menu"
            /\ lastOp' = "undo"
            /\ UNCHANGED undoVars
       ELSE /\ lines' = splitlines(logfile.text)
            /\ idx' = Len(splitlines(logfile.text))
            /\ pc' = "revert"
            /\ msg' = Quiet
            /\ UNCHANGED lastOp
    /\ Forget
    /\ UNCHANGED <<TMDB_API_KEY, fsVars, tmdb, walkVars, bodyVars, applied, logStart>>
    /\ UNCHANGED delay
    /\ UNCHANGED envVars

\* (the records taken in the order of the log)
line_forward == lines[Len(lines) - idx + 1]

\* the record in hand, lines 122-125: reversed(lines)
line == lines[idx]

has_arrow == Find(line, Arrow) > 0

undo_old == SplitArrow(line)[1]

undo_new == SplitArrow(line)[2]

\* line 126
still_there == exists(undo_new)

\* (the loop left at the first record whose file is missing)
remaining_break == IF still_there THEN idx - 1 ELSE 0

\* line 122: the loop goes on with the record before, whatever became of
\* this one
remaining == idx - 1

\* lines 122-134, one record, when the operating system refuses no call
revert ==
    /\ pc = "revert"
    /\ idx > 0
    /\ idx' = remaining
    /\ IF ~has_arrow
       THEN msg' = Quiet /\ UNCHANGED <<files, dirs>>
       ELSE IF ~still_there
       THEN /\ msg' = Say("File not found, cannot revert", undo_new, <<>>)
            /\ UNCHANGED <<files, dirs>>
       ELSE IF makedirsRaises(dirname(undo_old))
       THEN /\ msg' = Say("Failed to revert", undo_new, <<>>)
            /\ UNCHANGED <<files, dirs>>
       ELSE /\ dirs' = dirs \cup Chain(dirname(undo_old))
            /\ IF renameRaises(undo_new, undo_old, dirs')
               THEN /\ msg' = Say("Failed to revert", undo_new, <<>>)
                    /\ UNCHANGED files
               ELSE /\ files' = Renamed(files, undo_new, undo_old)
                    /\ msg' = Say("Reverted", undo_new, undo_old)
    /\ UNCHANGED <<pc, TMDB_API_KEY, logfile, tmdb, optVars, walkVars, bodyVars,
                   lines, histVars>>
    /\ UNCHANGED paceVars
    /\ UNCHANGED envVars

\* lines 129-132: the operating system refuses the move back; the exception
\* is caught and reported
revert_raises ==
    /\ pc = "revert"
    /\ idx > 0
    /\ has_arrow
    /\ still_there
    /\ ~makedirsRaises(dirname(undo_old))
    /\ idx' = remaining
    /\ dirs' = dirs \cup Chain(dirname(undo_old))
    /\ msg' = Say("Failed to revert", undo_new, <<>>)
    /\ UNCHANGED <<pc, TMDB_API_KEY, files, logfile, tmdb, optVars, walkVars,
                   bodyVars, lines, histVars>>
    /\ UNCHANGED paceVars
    /\ faults < MaxFaults
    /\ faults' = faults + 1
    /\ UNCHANGED ops

\* (the log left in place)
removed_kept == logfile

\* line 136: os.remove(LOG_FILE)
removed == [exists |-> FALSE, text |-> <<>>]

\* lines 136-137
undo_done ==
    /\ pc = "revert"
    /\ idx = 0
    /\ logfile' = removed
    /\ msg' = Say("Undo complete. Log file cleared.", <<>>, <<>>)
    /\ lines' = <<>>
    /\ pc' = "menu"
    /\ lastOp' = "undo"
    /\ UNCHANGED <<TMDB_API_KEY, files, dirs, tmdb, optVars, walkVars, bodyVars,
                   idx, applied, logStart, outcome, previous>>
    /\ UNCHANGED paceVars
    /\ UNCHANGED envVars

(***************************************************************************)
(* Someone else removes a renamed file while the program waits at its menu *)
(***************************************************************************)
\* the destinations the log records
Logged ==
    LET ls == splitlines(logfile.text)
    IN  {SplitArrow(ls[i])[2] : i \in {k \in 1..Len(ls) : Find(ls[k], Arrow) > 0}}

file_removed ==
    /\ pc = "menu"
    /\ \E p \in DOMAIN files \cap Logged :
          files' = [q \in DOMAIN files \ {p} |-> files[q]]
    /\ lastOp' = "other"
    /\ msg' = Quiet
    /\ Forget
    /\ UNCHANGED <<pc, TMDB_API_KEY, dirs, logfile, tmdb, walkVars, bodyVars,
                   undoVars, applied, logStart>>
    /\ UNCHANGED delay
    /\ faults < MaxFaults
    /\ faults' = faults + 1
    /\ UNCHANGED ops

\* the sources the log records
LoggedSources ==
    LET ls == splitlines(logfile.text)
    IN  {SplitArrow(ls[i])[1] : i \in {k \in 1..Len(ls) : Find(ls[k], Arrow) > 0}}

\* someone tidies away a folder the batch has emptied of its videos, with
\* whatever else it held
folder_removed ==
    /\ pc = "menu"
    /\ \E d \in {dirname(p) : p \in LoggedSources} \cap (dirs \ {ROOT_FOLDER}) :
          /\ DirsIn(d) = {}
          /\ \A f \in FilesIn(d) : Lower(splitext(f)[2]) \notin VIDEO_EXTENSIONS
          /\ dirs' = dirs \ {d}
          /\ files' = [q \in {r \in DOMAIN files : dirname(r) # d} |-> files[q]]
    /\ lastOp' = "other"
    /\ msg' = Quiet
    /\ Forget
    /\ UNCHANGED <<pc, TMDB_API_KEY, logfile, tmdb, walkVars, bodyVars,
                   undoVars, applied, logStart>>
    /\ UNCHANGED delay
    /\ faults < MaxFaults
    /\ faults' = faults + 1
    /\ UNCHANGED ops

(***************************************************************************)
(* Specifications                                                          *)
(***************************************************************************)
Next ==
    \/ main_menu
    \/ launch
    \/ rename_no_key
    \/ rename_start
    \/ walk_dir
    \/ walk_file
    \/ resolve
    \/ plan
    \/ rename_done
    \/ undo_start
    \/ revert
    \/ undo_done

\* the program alone, on a file system that refuses nothing
Spec == Init /\ [][Next]_vars

Faults ==
    \/ resolve_fails
    \/ plan_raises
    \/ revert_raises
    \/ file_removed
    \/ folder_removed

\* the program with failing requests, refused moves and files removed by
\* others between two operations
SpecFaults == Init /\ [][Next \/ Faults]_vars

\* the service answers differently from one operation to the next
service_changes ==
    /\ pc = "menu"
    /\ tmdb' \in LaterCatalogues \ {tmdb}
    /\ lastOp' = "other"
    /\ msg' = Quiet
    /\ Forget
    /\ UNCHANGED <<pc, TMDB_API_KEY, fsVars, walkVars, bodyVars, undoVars,
                   applied, logStart, delay>>
    /\ UNCHANGED envVars

\* the program alone on its tree, with a service whose answers change
SpecClosed == Init /\ [][Next \/ service_changes]_vars

(***************************************************************************)
(* The program on a tree with a folder whose name holds " -> "              *)
(***************************************************************************)
ArrowFolder == join(ROOT_FOLDER, <<"x", " ", "-", ">", " ", "y">>)

ArrowVideos ==
    { <<ArrowFolder, <<"a", ".", "m", "k", "v">>, 1>>,
      <<ROOT_FOLDER, <<"a", ".", "m", "k", "v">>, 2>> }

InitArrow ==
    /\ pc = "menu"
    /\ TMDB_API_KEY = PLACEHOLDER_KEY
    /\ \E chosen \in SUBSET ArrowVideos :
          files = [p \in {join(v[1], v[2]) : v \in chosen} |->
                     (CHOOSE v \in chosen : join(v[1], v[2]) = p)[3]]
    /\ dirs = {ROOT_FOLDER, ArrowFolder}
    /\ logfile = [exists |-> FALSE, text |-> <<>>]
    /\ tmdb \in Catalogues
    /\ clean_junk = FALSE /\ dry_run = FALSE /\ sort_collections = FALSE
    /\ stack = <<>> /\ root = <<>> /\ nondirs = {}
    /\ file = <<>> /\ title = <<>> /\ movie_data = NoData
    /\ lines = <<>> /\ idx = 0
    /\ msg = Quiet
    /\ applied = <<>>
    /\ logStart = 0
    /\ lastOp = "none"
    /\ outcome = <<>>
    /\ previous = [valid |-> FALSE, out |-> <<>>]
    /\ delay = "none"
    /\ would = NoReport
    /\ ops = 0
    /\ faults = 0

SpecArrow == InitArrow /\ [][Next]_vars

(***************************************************************************)
(* clean_title on many names: the scan has listed a folder that holds one   *)
(* video file, whose name is made of words, junk tokens and separators      *)
(***************************************************************************)
TitleExample ==
    <<"M","o","v","i","e",".","2","0","1","9",".","1","0","8","0","p",".",
      "B","l","u","R","a","y",".","x","2","6","4",".","m","k","v">>

Pieces ==
    { <<"M","o","v","i","e">>, <<"2","0","1","9">>, <<"1","0","8","0","p">>,
      <<"B","l","u","R","A","Y">>, <<"x","2","6","4">>,
      <<".">>, <<"_">>, <<" ">> }

RECURSIVE Joined(_)
Joined(n) ==
    IF n = 0 THEN {<<>>}
    ELSE LET shorter == Joined(n - 1)
         IN  shorter \cup {a \o b : a \in shorter, b \in Pieces}

FileNames ==
    {n \o <<".", "m", "k", "v">> : n \in Joined(MaxPieces) \ {<<>>}}
        \cup {TitleExample}

InitTitles ==
    /\ pc = "walk"
    /\ TMDB_API_KEY = "key"
    /\ \E f \in FileNames :
          /\ files = [p \in {join(ROOT_FOLDER, f)} |-> 1]
          /\ nondirs = {f}
    /\ dirs = {ROOT_FOLDER}
    /\ logfile = [exists |-> TRUE, text |-> <<>>]
    /\ tmdb \in Catalogues
    /\ clean_junk \in BOOLEAN /\ dry_run \in BOOLEAN /\ sort_collections = FALSE
    /\ stack = <<>> /\ root = ROOT_FOLDER
    /\ file = NoLocal /\ title = NoLocal /\ movie_data = NoData
    /\ lines = <<>> /\ idx = 0
    /\ msg = Quiet
    /\ applied = <<>>
    /\ logStart = 0
    /\ lastOp = "none"
    /\ outcome = <<>>
    /\ previous = [valid |-> FALSE, out |-> <<>>]
    /\ delay = "none"
    /\ would = NoReport
    /\ ops = 1
    /\ faults = 0

\* the loop of line 159 takes the file and computes its title
SpecTitles == InitTitles /\ [][walk_file]_vars

(***************************************************************************)
(* Properties                                                              *)
(***************************************************************************)
Records == splitlines(logfile.text)

UndoReturns == pc \in {"undo_last_batch", "revert"} /\ pc' = "menu"

InBatch == pc \in {"walk", "get_movie_data", "plan"}

\* every file the latest run renamed is at the path it had, with its content
AllBack(fs) ==
    \A i \in 1..Len(applied) :
        /\ applied[i].old \in DOMAIN fs
        /\ fs[applied[i].old] = applied[i].content

DryRunFrame ==
    [][((pc = "rename_movies" \/ InBatch) /\ dry_run') =>
          UNCHANGED <<files, dirs, logfile>>]_vars

\* C3: a candidate whose destination exists when it is processed is left
\* where it is, nothing is logged for it and the scan goes on; and every
\* step of a batch leaves each file that stays at its path with its content,
\* and keeps every content in the tree.
CollisionSkips ==
    [][pc = "plan" =>
          /\ (resolved /\ exists(new_path)) =>
                (files' = files /\ logfile' = logfile /\ pc' = "walk")
          /\ \A p \in DOMAIN files :
                \/ p \in DOMAIN files' /\ files'[p] = files[p]
                \/ p = old_path /\ \E q \in DOMAIN files' \ DOMAIN files :
                                       files'[q] = files[p]]_vars

\* a candidate has been skipped for a destination that exists, in a batch
\* that is no dry run
CollisionReached ==
    /\ pc = "walk"
    /\ ~dry_run
    /\ msg.kind = "Skipped (already exists)"
    /\ \E p \in DOMAIN outcome : outcome[p] = "SKIP_EXISTS" /\ p \in DOMAIN files

\* C4: in a run that directly follows a completed run with the same options,
\* no dry run, nothing is renamed and nothing is logged; a source the first
\* run renamed is no candidate or is skipped for an existing destination, and
\* once the run is over every candidate the first run skipped has been
\* skipped again in the same way.
Idempotent ==
    (previous.valid /\ (InBatch \/ (pc = "menu" /\ lastOp = "rename"))) =>
        /\ applied = <<>>
        /\ Len(Records) = logStart
        /\ \A p \in DOMAIN outcome : outcome[p] # "RENAME"
        /\ \A p \in DOMAIN previous.out :
              /\ previous.out[p] = "RENAME" =>
                    (p \notin DOMAIN outcome \/ outcome[p] = "SKIP_EXISTS")
              /\ (previous.out[p] # "RENAME" /\ pc = "menu") =>
                    (p \in DOMAIN outcome /\ outcome[p] = previous.out[p])

\* a second run is over, after a first that renamed one candidate and
\* skipped another
IdempotentReached ==
    /\ pc = "menu"
    /\ lastOp = "rename"
    /\ previous.valid
    /\ \E p \in DOMAIN previous.out : previous.out[p] = "RENAME"
    /\ \E p \in DOMAIN previous.out : previous.out[p] = "SKIP_EXISTS"

\* C5: undo_last_batch on a missing log file, or on one without a line,
\* says there is nothing to undo and changes neither the tree nor the log
\* file.
UndoNothing ==
    [][(pc = "undo_last_batch" /\ (~logfile.exists \/ Records = <<>>)) =>
          /\ UNCHANGED <<files, dirs, logfile>>
          /\ pc' = "menu"
          /\ msg'.kind = IF logfile.exists
                         THEN "Log file is empty. Nothing to undo."
                         ELSE "No log file found. Nothing to undo."]_vars

\* undo has returned from a log file that exists and holds no line
UndoNothingReached ==
    /\ pc = "menu"
    /\ lastOp = "undo"
    /\ msg.kind = "Log file is empty. Nothing to undo."
    /\ logfile.exists
    /\ logfile.text = <<>>

\* C6: when the move of a candidate is refused, nothing is logged for it and
\* the batch goes on with the remaining candidates.
MoveFailureContinues ==
    [][(pc = "plan" /\ faults' # faults) =>
          (logfile' = logfile /\ pc' = "walk")]_vars

\* the move back of the record in hand succeeds
MovesBack ==
    /\ has_arrow
    /\ exists(undo_new)
    /\ faults' = faults
    /\ ~makedirsRaises(dirname(undo_old))
    /\ ~renameRaises(undo_new, undo_old, dirs \cup Chain(dirname(undo_old)))

\* C7: undo goes from each record to the one before it until none is left; a
\* record whose destination is missing or whose move back is refused is
\* reported and leaves the files as they are, every other record's file is
\* moved back to its source path.
UndoFailsSoft ==
    /\ [][(pc = "revert" /\ idx > 0) =>
             /\ pc' = "revert" /\ idx' = idx - 1 /\ lines' = lines
             /\ (has_arrow /\ ~exists(undo_new)) =>
                   (files' = files /\ msg'.kind = "File not found, cannot revert")
             /\ (has_arrow /\ exists(undo_new) /\ ~MovesBack) =>
                   (files' = files /\ msg'.kind = "Failed to revert")
             /\ MovesBack =>
                   /\ undo_old \in DOMAIN files'
                   /\ files'[undo_old] = files[undo_new]
                   /\ undo_new \notin DOMAIN files']_vars
    /\ [][(pc = "revert" /\ pc' # "revert") => idx = 0]_vars

\* all of two records are done: the file of the later one was missing, the
\* file of the earlier one is back at its source
UndoFailsSoftReached ==
    /\ pc = "revert"
    /\ idx = 0
    /\ Len(lines) = 2
    /\ ~exists(SplitArrow(lines[2])[2]) /\ ~exists(SplitArrow(lines[2])[1])
    /\ SplitArrow(lines[1])[1] \in DOMAIN files

\* C8 as stated: whenever undo_last_batch returns, the log file does not
\* exist.
LogRemovedAfterUndo ==
    [][UndoReturns => ~logfile'.exists]_vars

\* C8, amended: whenever undo_last_batch returns the log holds no record: it
\* has been removed if it held a line (whatever became of the records) and is
\* as it was, missing or empty, if it held none; and an undo that follows an
\* undo finds nothing to undo and moves no file.
LogLifeCycle ==
    /\ [][UndoReturns =>
             /\ splitlines(logfile'.text) = <<>>
             /\ IF logfile.exists /\ Records # <<>>
                THEN ~logfile'.exists ELSE logfile' = logfile]_vars
    /\ [][(pc = "undo_last_batch" /\ lastOp = "undo") =>
             (pc' = "menu" /\ UNCHANGED <<files, dirs, logfile>>)]_vars

\* undo has returned from a log of two records, one of them not reverted
LogLifeCycleReached ==
    /\ pc = "menu"
    /\ lastOp = "undo"
    /\ msg.kind = "Undo complete. Log file cleared."
    /\ ~logfile.exists
    /\ Len(applied) = 2
    /\ ~AllBack(files)

\* C9: the log never holds records of two runs: when the latest run found
\* records in the log it opened, it has added none.
SinglePendingBatch ==
    ~(logStart > 0 /\ Len(Records) > logStart)

\* the folder C10 gives a resolved candidate
SortedFolder ==
    IF sort_collections /\ ~movie_data.belongs_to_collection.null
    THEN ROOT_FOLDER \o <<"/">> \o movie_data.belongs_to_collection.name
    ELSE dirname(old_path)

\* C10: for a resolved candidate, with sorting on and a collection in the
\* metadata the folder ROOT_FOLDER/<collection name> exists once the candidate
\* is processed, and a renamed candidate is in that folder; otherwise a
\* renamed candidate is in the folder it was in.  Its name there is
\* "<title> (<year>)<ext>".
CollectionSorting ==
    [][(pc = "plan" /\ resolved) =>
          /\ (sort_collections /\ ~movie_data.belongs_to_collection.null) =>
                SortedFolder \in dirs'
          /\ files' # files =>
                /\ SortedFolder \o <<"/">> \o new_name \in DOMAIN files'
                /\ files'[SortedFolder \o <<"/">> \o new_name] = files[old_path]]_vars

\* a file of the folder S has been renamed into the collection folder,
\* which the run created
CollectionSortingReached ==
    /\ pc = "walk"
    /\ msg.kind = "Renamed"
    /\ sort_collections
    /\ Len(applied) >= 1
    /\ dirname(applied[Len(applied)].old) = SubFolder
    /\ dirname(applied[Len(applied)].new) = ROOT_FOLDER \o <<"/">> \o CollectionName
    /\ applied[Len(applied)].new \in DOMAIN files

\* the search for the title in hand gives no result with a release date
Undatable ==
    \/ title \notin DOMAIN tmdb.search
    \/ \A i \in 1..Len(tmdb.search[title]) :
          tmdb.search[title][i].release_date = <<>>

\* C11: a resolution in which a request or the decoding of an answer fails,
\* or whose search gives no dated result, ends with None and changes nothing;
\* a candidate resolved to None is skipped: no file is moved, no folder is
\* made, nothing is logged, and the scan goes on where it was.
ResolverFailuresSkip ==
    /\ [][pc = "get_movie_data" =>
             /\ pc' = "plan"
             /\ UNCHANGED <<files, dirs, logfile, applied>>
             /\ (faults' # faults \/ Undatable) => movie_data' = None]_vars
    /\ [][(pc = "plan" /\ movie_data = None) =>
             /\ UNCHANGED <<files, dirs, logfile, applied, stack, root, nondirs>>
             /\ pc' = "walk"
             /\ msg'.kind = "Year not found"
             /\ outcome'[old_path] = "SKIP_NO_YEAR"]_vars

\* a candidate the service knows was skipped after a failed request, with
\* sorting on, and the scan then renamed another candidate
ResolverFailuresSkipReached ==
    /\ pc = "walk"
    /\ faults = 1
    /\ sort_collections
    /\ msg.kind = "Renamed"
    /\ \E p \in DOMAIN outcome :
          /\ outcome[p] = "SKIP_NO_YEAR"
          /\ clean_title(basename(p), clean_junk) = <<"a">>
          /\ p \in DOMAIN files

\* no white space at either end
Trimmed(s) == s = Strip(s)

\* a junk token of JUNK_PATTERN, in any case, somewhere in s
HasJunk(s) == \E i \in 1..Len(s) : JunkMatch(From(s, i)) > 0

\* two white-space characters in a row somewhere in s
HasRepeatedSpace(s) ==
    \E i \in 1..(Len(s) - 1) : s[i] \in Whitespace /\ s[i + 1] \in Whitespace

\* C12: with remove_junk set, the title of every file name holds no junk
\* token, no dot, no underscore and no repeated white space, and has no
\* white space at either end; the title of
\* "Movie.2019.1080p.BluRay.x264.mkv" is "Movie 2019".
CleanTitleTrimmed ==
    (pc = "get_movie_data" /\ clean_junk) =>
        /\ ~HasJunk(title)
        /\ \A i \in 1..Len(title) : title[i] \notin {".", "_"}
        /\ ~HasRepeatedSpace(title)
        /\ Trimmed(title)
        /\ file = TitleExample =>
              title = <<"M","o","v","i","e"," ","2","0","1","9">>

\* the line of the log for the i-th rename of the running batch
AppliedLine(i) == applied[i].old \o Arrow \o applied[i].new

\* C13: all through a batch the lines the batch has added to the log are
\* those of the renames it has applied, one each and in their order, after
\* the lines the log held before; a step of the batch that moves a file adds
\* the line of that move in the same pass of the loop, and a step that moves
\* none (dry run, skipped or unresolved candidate) leaves the log as it is.
LogMatchesApplied ==
    /\ [](InBatch =>
             /\ Len(Records) = logStart + Len(applied)
             /\ \A i \in 1..Len(applied) : Records[logStart + i] = AppliedLine(i))
    /\ [][InBatch =>
             IF files' # files
             THEN /\ pc = "plan" /\ ~dry_run /\ resolved /\ ~exists(new_path)
                  /\ logfile'.text =
                        logfile.text \o old_path \o Arrow \o new_path \o <<"\n">>
                  /\ applied' = Append(applied, [old |-> old_path, new |-> new_path,
                                                 content |-> files[old_path]])
                  /\ new_path \in DOMAIN files' /\ old_path \notin DOMAIN files'
                  /\ pc' = "walk"
             ELSE logfile' = logfile /\ applied' = applied]_vars

\* between two candidates of a batch that has renamed two files
LogMatchesAppliedReached ==
    /\ pc = "walk"
    /\ Len(applied) = 2
    /\ Len(Records) = 2
    /\ applied[1].new \in DOMAIN files
    /\ applied[2].new \in DOMAIN files

\* C14: undo takes the records of the log from the last to the first, one
\* per step: the record of a step is the one at the position the step
\* before left, and a record is only taken once all records after it have
\* been reverted or passed over; a file that is moved back goes from the
\* destination of that record to its source, whose folder exists when the
\* move is made, being made again when it was missing.
UndoReverseOrder ==
    /\ [][(pc = "undo_last_batch" /\ pc' = "revert") =>
             (lines' = Records /\ idx' = Len(Records))]_vars
    /\ [][(pc = "revert" /\ idx > 0) =>
             LET source == SplitArrow(lines[idx])[1]
                 dest   == SplitArrow(lines[idx])[2]
             IN  /\ lines' = lines /\ idx' = idx - 1 /\ pc' = "revert"
                 /\ msg'.a = dest
                 /\ \A d \in dirs' \ dirs : d \in Chain(dirname(source))
                 /\ files' # files =>
                       /\ dirname(source) \in dirs'
                       /\ dest \in DOMAIN files
                       /\ files' = Renamed(files, dest, source)]_vars
    /\ [][(pc = "revert" /\ pc' # "revert") => idx = 0]_vars

\* both of two records have been reverted, the later one first, and the
\* folder of one source was made again after it had been tidied away
UndoReverseOrderReached ==
    /\ pc = "revert"
    /\ idx = 0
    /\ Len(lines) = 2
    /\ msg.kind = "Reverted"
    /\ msg.a = SplitArrow(lines[1])[2]
    /\ \A i \in 1..2 : SplitArrow(lines[i])[1] \in DOMAIN files
    /\ \E i \in 1..2 : dirname(SplitArrow(lines[i])[1]) = SubFolder
    /\ SubFolder \in dirs
    /\ join(Notes[1], Notes[2]) \notin DOMAIN files

\* C15: whenever a batch is about to resolve a candidate, it has made no
\* resolution yet or has taken the pause of API_DELAY since the latest one,
\* whatever became of the candidate resolved before.
DelayBetweenRequests ==
    pc = "get_movie_data" => delay # "due"

\* the name holds four digits between parentheses
Tagged(name) ==
    \E i \in 1..Len(name) :
        /\ i + 5 <= Len(name)
        /\ name[i] = "(" /\ name[i + 5] = ")"
        /\ {name[i + 1], name[i + 2], name[i + 3], name[i + 4]} \subseteq Digits

\* C16: a file whose name holds a year in parentheses is never resolved,
\* moved or logged by a batch; every file a batch moves gets a name that
\* holds one, and no file is renamed twice in one batch: the renames of a
\* batch are of different files, and none starts where another ended.
YearFilter ==
    /\ [](pc \in {"get_movie_data", "plan"} => ~Tagged(file))
    /\ [][(InBatch /\ (files' # files \/ logfile' # logfile)) =>
             /\ ~Tagged(basename(old_path))
             /\ Tagged(basename(new_path))
             /\ new_path \in DOMAIN files']_vars
    /\ [](\A i, j \in 1..Len(applied) :
             i # j => /\ applied[i].content # applied[j].content
                      /\ applied[i].old # applied[j].new)

\* the scan has listed the collection folder after a file was moved into it
\* by this batch, and has passed over that file
YearFilterReached ==
    /\ pc = "walk"
    /\ root = join(ROOT_FOLDER, CollectionName)
    /\ nondirs = {}
    /\ \E i \in 1..Len(applied) :
          /\ dirname(applied[i].new) = root
          /\ applied[i].new \in DOMAIN files

Contents(fs) == {fs[p] : p \in DOMAIN fs}

\* C17: no step of the program, whatever the options and the answers of the
\* service, which may change between two operations, loses a file: the tree
\* holds as many files after the step as before, with the same contents, and
\* a step that changes the tree moves one file to a path where no file and
\* no folder was.
NoFileLost ==
    [][/\ Contents(files') = Contents(files)
       /\ Cardinality(DOMAIN files') = Cardinality(DOMAIN files)
       /\ files' # files =>
             \E p \in DOMAIN files :
                 \E q \in DOMAIN files' \ (DOMAIN files \cup dirs) :
                     files' = Renamed(files, p, q)]_vars

\* undo has gone through the records of two batches, the first made when
\* the movie was in the collection, the second after its date had changed,
\* and both files are back
NoFileLostReached ==
    /\ pc = "revert"
    /\ idx = 0
    /\ Len(lines) = 2
    /\ dirname(SplitArrow(lines[1])[2]) = join(ROOT_FOLDER, CollectionName)
    /\ Find(SplitArrow(lines[2])[2], Take(LaterDate, 4)) > 0
    /\ \A i \in 1..2 : SplitArrow(lines[i])[1] \in DOMAIN files
    /\ Cardinality(DOMAIN files) = 3

\* the renames the latest batch applied, as pairs of source and destination
AppliedPairs == {<<applied[i].old, applied[i].new>> : i \in 1..Len(applied)}

\* C18: when a batch that is no dry run is over, having followed directly a
\* dry run on the same files with the same other options and the same
\* answers of the service, the renames it applied are those the dry run
\* said it would make.
DryRunFidelity ==
    (pc = "menu" /\ lastOp = "rename" /\ would.valid) =>
        would.pairs = AppliedPairs

\* C19: the line a batch writes for a rename, split at its first " -> ",
\* gives back the source path and the destination path of that rename.
RecordRoundTrip ==
    [][(InBatch /\ logfile'.text # logfile.text) =>
          LET written == splitlines(logfile'.text)[Len(splitlines(logfile'.text))]
          IN  /\ Find(written, Arrow) > 0
              /\ SplitArrow(written) = <<old_path, new_path>>]_vars

====
